---- MODULE Spec2Model ----
(***************************************************************************)
(* A model of the PCX reader of src/src/pcx_reader.py: PCXHeader parses    *)
(* the 128-byte header, PCXReader._extract_palette locates the palette,    *)
(* PCXReader._decode_image drives _decode_rle_scanline once per            *)
(* (scanline, plane) pair and assembles the pixels.                        *)
(*                                                                         *)
(* Bytes are the integers 0..255; a file is a sequence of bytes.  Python   *)
(* indexes from 0 and TLA+ from 1: At(d, i) is Python's d[i].              *)
(***************************************************************************)
EXTENDS Integers, Sequences, FiniteSets, TLC

\* the reader: PCXReader and its constructor's locals
VARIABLES data, pc, header, palette, dry_pos, dry_pairs, pos, end_pos, row,
          plane, plane_data, scanlines, line, last_start, image, error

\* the palette renderers: their arguments, the colours they draw and the
\* grid image they return
VARIABLES method, cell_size, max_colors, shown, grid

\* ImageHistory: its fields, and the latest call with its argument and result
VARIABLES stack, index, max_size, op, arg, returned

\* the editor window: the displayed image, and for the latest edit the image
\* it was applied to and the image it produced
VARIABLES app, original_image, trail, edits, before_edit, after_edit

reader_vars == <<data, pc, header, palette, dry_pos, dry_pairs, pos, end_pos, row,
                 plane, plane_data, scanlines, line, last_start, image, error>>

render_vars == <<method, cell_size, max_colors, shown, grid>>

history_vars == <<stack, index, max_size, op, arg, returned>>

editor_vars == <<app, original_image, trail, edits, before_edit, after_edit>>

vars == <<reader_vars, render_vars, history_vars, editor_vars>>

----------------------------------------------------------------------------
(* Bounds of the explored inputs.                                          *)

\* longest explicit image body (bytes written right after the header)
MaxBody == 2

\* largest xmax = ymax of the generated headers (xmin = ymin = 0)
MaxExtent == 1

----------------------------------------------------------------------------
(* Program constants.                                                      *)

HeaderSize == 128
PaletteMarker == 12
PaletteBytes == 768
PaletteBlock == 769
PaletteEntries == 256
HeaderPaletteEntries == 16
HeaderPaletteOffset == 16
PcxManufacturer == 10
PaletteVersion == 5
RunMask == 192
CountMask == 63

----------------------------------------------------------------------------
(* Python sequence primitives.                                             *)

Min(a, b) == IF a <= b THEN a ELSE b
Max(a, b) == IF a >= b THEN a ELSE b

\* d[i], 0 <= i < len(d)
At(d, i) == d[i + 1]

\* d[a:b] for 0 <= a, 0 <= b
Slice(d, a, b) == SubSeq(d, a + 1, Min(b, Len(d)))

\* d[:w], w of any sign
SliceTo(d, w) ==
  IF w >= 0 THEN SubSeq(d, 1, Min(w, Len(d)))
  ELSE SubSeq(d, 1, Max(Len(d) + w, 0))

\* d[-n:] for n >= 1
SliceLast(d, n) == SubSeq(d, Max(Len(d) - n, 0) + 1, Len(d))

\* [value] * count
Repeat(value, count) == [i \in 1..count |-> value]

\* byte & mask for a byte in 0..255 and the two masks the decoder uses
BitAnd(byte, mask) ==
  IF mask = RunMask THEN byte - (byte % 64)
  ELSE IF mask = CountMask THEN byte % 64
  ELSE byte

\* struct.unpack('<H', d[off:off+2])[0]
U16_BigEndian(d, off) == 256 * At(d, off) + At(d, off + 1)

U16(d, off) == At(d, off) + 256 * At(d, off + 1)

----------------------------------------------------------------------------
(* PCXHeader.                                                              *)

NoHeader ==
  [manufacturer |-> -1, version |-> -1, encoding |-> -1, bits_per_pixel |-> -1,
   xmin |-> -1, ymin |-> -1, xmax |-> -1, ymax |-> -1, hdpi |-> -1, vdpi |-> -1,
   header_palette |-> <<>>, reserved |-> -1, num_planes |-> -1,
   bytes_per_line |-> -1, palette_info |-> -1, hscreen_size |-> -1,
   vscreen_size |-> -1, width |-> -1, height |-> -1]

\* PCXHeader.__init__ on a buffer of at least 128 bytes
PCXHeader(d) ==
  [manufacturer |-> At(d, 0), version |-> At(d, 1), encoding |-> At(d, 2),
   bits_per_pixel |-> At(d, 3),
   xmin |-> U16(d, 4), ymin |-> U16(d, 6), xmax |-> U16(d, 8), ymax |-> U16(d, 10),
   hdpi |-> U16(d, 12), vdpi |-> U16(d, 14),
   header_palette |->
     [i \in 1..HeaderPaletteEntries |->
        <<At(d, HeaderPaletteOffset + (i - 1) * 3),
          At(d, HeaderPaletteOffset + (i - 1) * 3 + 1),
          At(d, HeaderPaletteOffset + (i - 1) * 3 + 2)>>],
   reserved |-> At(d, 64), num_planes |-> At(d, 65),
   bytes_per_line |-> U16(d, 66), palette_info |-> U16(d, 68),
   hscreen_size |-> U16(d, 70), vscreen_size |-> U16(d, 72),
   width |-> U16(d, 8) - U16(d, 4) + 1,
   height |-> U16(d, 10) - U16(d, 6) + 1]

\* PCXHeader.is_valid
is_valid_AtLeast(h) == h.manufacturer >= PcxManufacturer

is_valid(h) == h.manufacturer = PcxManufacturer

----------------------------------------------------------------------------
(* The palette: None, or a list of RGB triples.                            *)

None == [none |-> TRUE, entries |-> <<>>]
Some(entries) == [none |-> FALSE, entries |-> entries]

\* Python truthiness of self.palette: None and [] are false
Truthy(p) == ~p.none /\ Len(p.entries) > 0

\* ParsePalette with the loop one entry short (range(255))
ParsePalette_Short(palette_data) ==
  [i \in 1..(PaletteEntries - 1) |->
     <<At(palette_data, (i - 1) * 3),
       At(palette_data, (i - 1) * 3 + 1),
       At(palette_data, (i - 1) * 3 + 2)>>]

\* the loop "for i in range(256): palette.append((r, g, b))"
ParsePalette(palette_data) ==
  [i \in 1..PaletteEntries |->
     <<At(palette_data, (i - 1) * 3),
       At(palette_data, (i - 1) * 3 + 1),
       At(palette_data, (i - 1) * 3 + 2)>>]

----------------------------------------------------------------------------
(* RLE: the dry run of _find_rle_end and the decoder proper.               *)

\* a dry run that counts a run as one decoded byte
DryRunBody_RunCountsOne(d, s) ==
  LET byte == At(d, s[2])
      p1 == s[2] + 1
  IN IF BitAnd(byte, RunMask) = RunMask
     THEN <<s[1] + 1, IF p1 < Len(d) THEN p1 + 1 ELSE p1>>
     ELSE <<s[1] + 1, p1>>

\* one iteration of the while loop of _find_rle_end (lines 191-201);
\* s = <<decoded, pos>>
DryRunBody(d, s) ==
  LET byte == At(d, s[2])
      p1 == s[2] + 1
  IN IF BitAnd(byte, RunMask) = RunMask
     THEN LET count == BitAnd(byte, CountMask)
          IN <<s[1] + count, IF p1 < Len(d) THEN p1 + 1 ELSE p1>>
     ELSE <<s[1] + 1, p1>>

\* the while loop of line 190, run for at most n iterations.  Every
\* iteration advances pos, so len(data) - pos iterations always suffice; the
\* iterations are split in halves to keep the evaluation shallow.
RECURSIVE DryRunWhile(_, _, _, _)
DryRunWhile(d, s, bytes_per_line, n) ==
  IF ~(s[1] < bytes_per_line /\ s[2] < Len(d)) THEN s
  ELSE IF n <= 1 THEN DryRunBody(d, s)
  ELSE DryRunWhile(d, DryRunWhile(d, s, bytes_per_line, n \div 2),
                   bytes_per_line, n - (n \div 2))

\* lines 189-201 for one (scanline, plane) pair: the position afterwards
DryRunPlane(d, p, bytes_per_line) ==
  DryRunWhile(d, <<0, p>>, bytes_per_line, Len(d) - p)[2]

\* the two for loops of _find_rle_end, n = remaining (scanline, plane) pairs
RECURSIVE DryRunPairs(_, _, _, _)
DryRunPairs(d, p, n, bytes_per_line) ==
  IF n <= 0 THEN p
  ELSE DryRunPairs(d, DryRunPlane(d, p, bytes_per_line), n - 1, bytes_per_line)

\* _find_rle_end: no statement of the body can raise, so None is never returned
FindRleEnd(d, h) ==
  DryRunPairs(d, HeaderSize, Max(h.height, 0) * h.num_planes, h.bytes_per_line)

\* a decoder that consumes a literal without appending it
DecodeRleBody_LiteralDropped(d, s) ==
  LET byte == At(d, s[2])
      p1 == s[2] + 1
  IN IF BitAnd(byte, RunMask) = RunMask
     THEN LET count == BitAnd(byte, CountMask)
          IN IF p1 < Len(d)
             THEN <<s[1] \o Repeat(At(d, p1), count), p1 + 1>>
             ELSE <<s[1], p1>>
     ELSE <<s[1], p1>>

\* a decoder that leaves the cursor on the value byte of a run
DecodeRleBody_ValueNotSkipped(d, s) ==
  LET byte == At(d, s[2])
      p1 == s[2] + 1
  IN IF BitAnd(byte, RunMask) = RunMask
     THEN LET count == BitAnd(byte, CountMask)
          IN IF p1 < Len(d)
             THEN <<s[1] \o Repeat(At(d, p1), count), p1>>
             ELSE <<s[1], p1>>
     ELSE <<Append(s[1], byte), p1>>

\* a decoder that steps over the value byte without the pos < len test
DecodeRleBody_UncheckedValue(d, s) ==
  LET byte == At(d, s[2])
      p1 == s[2] + 1
  IN IF BitAnd(byte, RunMask) = RunMask
     THEN LET count == BitAnd(byte, CountMask)
          IN IF p1 < Len(d)
             THEN <<s[1] \o Repeat(At(d, p1), count), p1 + 1>>
             ELSE <<s[1], p1 + 1>>
     ELSE <<Append(s[1], byte), p1>>

\* one iteration of the while loop of _decode_rle_scanline (lines 212-223);
\* s = <<decoded, pos>>
DecodeRleBody(d, s) ==
  LET byte == At(d, s[2])
      p1 == s[2] + 1
  IN IF BitAnd(byte, RunMask) = RunMask
     THEN LET count == BitAnd(byte, CountMask)
          IN IF p1 < Len(d)
             THEN <<s[1] \o Repeat(At(d, p1), count), p1 + 1>>
             ELSE <<s[1], p1>>
     ELSE <<Append(s[1], byte), p1>>

\* the while loop of line 211, run for at most n iterations (as DryRunWhile)
RECURSIVE DecodeRleWhile(_, _, _, _)
DecodeRleWhile(d, s, bytes_per_line, n) ==
  IF ~(Len(s[1]) < bytes_per_line /\ s[2] < Len(d)) THEN s
  ELSE IF n <= 1 THEN DecodeRleBody(d, s)
  ELSE DecodeRleWhile(d, DecodeRleWhile(d, s, bytes_per_line, n \div 2),
                      bytes_per_line, n - (n \div 2))

\* _decode_rle_scanline: <<decoded, new_pos>>
DecodeRleScanline(d, start_pos, bytes_per_line) ==
  DecodeRleWhile(d, <<<<>>, start_pos>>, bytes_per_line, Len(d) - start_pos)

----------------------------------------------------------------------------
(* _extract_palette.                                                       *)

\* BoundaryPalette without the unmarked branch of lines 140-148
BoundaryPalette_MarkerOnly(d, h) ==
  IF h.version >= PaletteVersion
  THEN LET rle_end == FindRleEnd(d, h)
       IN IF rle_end + PaletteBlock <= Len(d) /\ At(d, rle_end) = PaletteMarker
          THEN Some(ParsePalette(Slice(d, rle_end + 1, rle_end + 1 + PaletteBytes)))
          ELSE None
  ELSE None

\* BoundaryPalette without the version test of line 127
BoundaryPalette_NoVersionGate(d, h) ==
  LET rle_end == FindRleEnd(d, h)
  IN IF rle_end + PaletteBlock <= Len(d)
     THEN IF At(d, rle_end) = PaletteMarker
          THEN Some(ParsePalette(Slice(d, rle_end + 1, rle_end + 1 + PaletteBytes)))
          ELSE Some(ParsePalette(Slice(d, rle_end, rle_end + PaletteBytes)))
     ELSE None

\* lines 127-148: the palette at the end of the RLE data, with or without marker
BoundaryPalette(d, h) ==
  IF h.version >= PaletteVersion
  THEN LET rle_end == FindRleEnd(d, h)
       IN IF rle_end + PaletteBlock <= Len(d)
          THEN IF At(d, rle_end) = PaletteMarker
               THEN Some(ParsePalette(Slice(d, rle_end + 1, rle_end + 1 + PaletteBytes)))
               ELSE IF rle_end + PaletteBytes <= Len(d)
                    THEN Some(ParsePalette(Slice(d, rle_end, rle_end + PaletteBytes)))
                    ELSE None
          ELSE None
  ELSE None

\* TrailingPalette reading the block from the marker on (data[-769:])
TrailingPalette_FromMarker(d, h) ==
  IF h.version >= PaletteVersion /\ Len(d) > PaletteBytes
  THEN Some(ParsePalette(SliceLast(d, PaletteBlock)))
  ELSE None

\* lines 150-170: the palette at the end of the file, with or without marker
TrailingPalette(d, h) ==
  IF h.version >= PaletteVersion /\ Len(d) > PaletteBytes
  THEN IF Len(d) >= PaletteBlock /\ At(d, Len(d) - PaletteBlock) = PaletteMarker
       THEN Some(ParsePalette(SliceLast(d, PaletteBytes)))
       ELSE IF Len(d) >= PaletteBytes
            THEN Some(ParsePalette(SliceLast(d, PaletteBytes)))
            ELSE None
  ELSE None

\* lines 172-176: the header palette of 16-colour images
HeaderFallback(h) ==
  IF h.bits_per_pixel <= 4 THEN Some(h.header_palette) ELSE None

\* _extract_palette trying the end of the file before the RLE boundary
ExtractPalette_TrailingFirst(d, h) ==
  LET boundary == BoundaryPalette(d, h)
      trailing == TrailingPalette(d, h)
  IN IF ~trailing.none THEN trailing
     ELSE IF ~boundary.none THEN boundary
     ELSE HeaderFallback(h)

\* _extract_palette trying the header palette before the 256-colour blocks
ExtractPalette_HeaderFirst(d, h) ==
  LET boundary == BoundaryPalette(d, h)
      trailing == TrailingPalette(d, h)
  IN IF h.bits_per_pixel <= 4 THEN Some(h.header_palette)
     ELSE IF ~boundary.none THEN boundary
     ELSE IF ~trailing.none THEN trailing
     ELSE None

\* lines 123-176
ExtractPalette(d, h) ==
  LET boundary == BoundaryPalette(d, h)
      trailing == TrailingPalette(d, h)
  IN IF ~boundary.none THEN boundary
     ELSE IF ~trailing.none THEN trailing
     ELSE HeaderFallback(h)

----------------------------------------------------------------------------
(* _decode_image: pixel assembly (lines 254-314).                          *)

NoImage == [via |-> "none", width |-> 0, height |-> 0, pixels |-> <<>>]

(* Python floats are IEEE-754 doubles.  Every value of the luma expression *)
(* is a multiple of 2^-56 below 2^9, so a double is kept exactly as the    *)
(* integer x * 2^56, written in three limbs of 22 bits, least significant  *)
(* first; each operation rounds its exact result to 53 significant bits,   *)
(* ties to even.                                                           *)
Limb == 4194304

\* the doubles 0.299, 0.587, 0.114 and 0.5
Double0299 == <<67108, 2952790, 1224>>
Double0587 == <<33552, 1476395, 2404>>
Double0114 == <<4093641, 3959422, 466>>
Double05 == <<0, 0, 2048>>

RECURSIVE BitLength(_)
BitLength(x) == IF x = 0 THEN 0 ELSE 1 + BitLength(x \div 2)

\* carries propagated so that the two low limbs are below Limb
Carry(x) ==
  LET t == x[2] + (x[1] \div Limb)
  IN <<x[1] % Limb, t % Limb, x[3] + (t \div Limb)>>

\* round to nearest double, ties to even: at most 12 low bits are dropped
RoundDouble(x) ==
  LET bits == IF x[3] > 0 THEN 44 + BitLength(x[3])
              ELSE IF x[2] > 0 THEN 22 + BitLength(x[2])
              ELSE BitLength(x[1])
  IN IF bits <= 53 THEN x
     ELSE LET unit == 2 ^ (bits - 53)
              rem == x[1] % unit
              up == \/ 2 * rem > unit
                    \/ 2 * rem = unit /\ (x[1] \div unit) % 2 = 1
          IN Carry(<<x[1] - rem + (IF up THEN unit ELSE 0), x[2], x[3]>>)

\* c * r for a double c and an int r in 0..255
DoubleTimes(c, r) == RoundDouble(Carry(<<c[1] * r, c[2] * r, c[3] * r>>))

\* a + b for doubles
DoublePlus(a, b) == RoundDouble(Carry(<<a[1] + b[1], a[2] + b[2], a[3] + b[3]>>))

\* int(x) for a double x >= 0
DoubleToInt(x) == x[3] \div 4096

\* the weighted sum truncated instead of rounded: int(0.299 * r + ...)
LumaSum_Truncating(r, g, b) ==
  DoubleToInt(
    DoublePlus(
      DoublePlus(DoubleTimes(Double0299, r), DoubleTimes(Double0587, g)),
      DoubleTimes(Double0114, b)))

\* line 277: y = int(0.299 * r + 0.587 * g + 0.114 * b + 0.5)
LumaSum(r, g, b) ==
  DoubleToInt(
    DoublePlus(
      DoublePlus(
        DoublePlus(DoubleTimes(Double0299, r), DoubleTimes(Double0587, g)),
        DoubleTimes(Double0114, b)),
      Double05))

\* lines 277-281: the sum, then the clamp to 0..255
Luma(r, g, b) ==
  LET y == LumaSum(r, g, b)
  IN IF y < 0 THEN 0 ELSE IF y > 255 THEN 255 ELSE y

\* grayscale_map of lines 274-282
GrayscaleMap(entries) ==
  [i \in 1..Len(entries) |-> Luma(entries[i][1], entries[i][2], entries[i][3])]

\* a 3-plane assembly that takes the planes in blue, green, red order
RgbRow_Bgr(scanline, width) ==
  [x \in 1..Min(Max(width, 0), Len(scanline[1])) |->
     <<scanline[3][x], scanline[2][x], scanline[1][x]>>]

\* the pixels one scanline contributes on the 3-plane path (lines 260-265)
RgbRow(scanline, width) ==
  [x \in 1..Min(Max(width, 0), Len(scanline[1])) |->
     <<scanline[1][x], scanline[2][x], scanline[3][x]>>]

\* scanline[0], scanline[1][x] or scanline[2][x] raises IndexError
RgbRowRaises(scanline, width) ==
  /\ width >= 1
  /\ \/ Len(scanline) = 0
     \/ \E x \in 1..Min(width, Len(scanline[1])) :
          \/ Len(scanline) < 3
          \/ x > Len(scanline[2])
          \/ x > Len(scanline[3])

\* the pixels one scanline contributes on the indexed path (lines 287-289)
LumaRow(scanline, width, grayscale_map) ==
  LET indices == SliceTo(scanline[1], width)
  IN [x \in 1..Len(indices) |->
        IF indices[x] < Len(grayscale_map)
        THEN grayscale_map[indices[x] + 1] ELSE indices[x]]

\* the pixels one scanline contributes on the grayscale paths (lines 296, 312)
GrayRow(scanline, width) == SliceTo(scanline[1], width)

\* pixels.extend(...) over all scanlines, Row(i) being the i-th contribution
RECURSIVE ExtendAll(_, _)
ExtendAll(rows, i) ==
  IF i > Len(rows) THEN <<>> ELSE rows[i] \o ExtendAll(rows, i + 1)

\* img.putdata(pixels) on a fresh image: missing entries stay zero
PutData(pixels, width, height, zero) ==
  [i \in 1..(width * height) |-> IF i <= Len(pixels) THEN pixels[i] ELSE zero]

\* Image 'L' -> convert('RGB')
GrayToRgb(pixels) == [i \in 1..Len(pixels) |-> <<pixels[i], pixels[i], pixels[i]>>]

MkImage(via, width, height, pixels) ==
  [via |-> via, width |-> width, height |-> height, pixels |-> pixels]

----------------------------------------------------------------------------
(* The files the reader is run on.                                         *)

\* bytes of the explicit image body: a literal and a run header of count 2
BodyBytes == {7, 194}

\* the declared bytes_per_line values
LineSizes == {1, 2, 700}

RECURSIVE SeqsUpTo(_, _)
SeqsUpTo(S, n) ==
  IF n = 0 THEN {<<>>}
  ELSE LET shorter == SeqsUpTo(S, n - 1)
       IN shorter \cup {Append(s, b) : s \in {t \in shorter : Len(t) = n - 1}, b \in S}

\* a 768-byte block whose contents depend on its seed
PalBlock(seed) == [i \in 1..PaletteBytes |-> (100 * seed + i) % 256]

\* n literal bytes
Pad(n) == [i \in 1..n |-> 7]

TailKinds == {"none", "marker_pal", "pal", "marker_pal_marker_pal",
              "pal_pal", "fill768", "fill769"}

FileTail(kind, bodyLen) ==
  CASE kind = "none" -> <<>>
    [] kind = "marker_pal" -> <<PaletteMarker>> \o PalBlock(1)
    [] kind = "pal" -> PalBlock(1)
    [] kind = "marker_pal_marker_pal" ->
         <<PaletteMarker>> \o PalBlock(1) \o <<PaletteMarker>> \o PalBlock(2)
    [] kind = "pal_pal" -> PalBlock(1) \o PalBlock(2)
    [] kind = "fill768" -> Pad(PaletteBytes - HeaderSize - bodyLen)
    [] kind = "fill769" -> Pad(PaletteBlock - HeaderSize - bodyLen)

\* a 128-byte header with xmin = ymin = 0
MkHeader(manufacturer, version, bits_per_pixel, xmax, ymax, num_planes, bytes_per_line) ==
  [i \in 1..HeaderSize |->
     LET off == i - 1
     IN CASE off = 0 -> manufacturer
          [] off = 1 -> version
          [] off = 2 -> 1
          [] off = 3 -> bits_per_pixel
          [] off = 8 -> xmax % 256
          [] off = 9 -> xmax \div 256
          [] off = 10 -> ymax % 256
          [] off = 11 -> ymax \div 256
          [] off = 12 -> 72
          [] off = 14 -> 72
          [] off >= 16 /\ off < 64 -> (5 * off) % 256
          [] off = 65 -> num_planes
          [] off = 66 -> bytes_per_line % 256
          [] off = 67 -> bytes_per_line \div 256
          [] off = 68 -> 1
          [] OTHER -> 0]

GoodHeaders ==
  {MkHeader(PcxManufacturer, v, b, m, m, n, l) :
     v \in {4, 5}, b \in {4, 8}, m \in 0..MaxExtent, n \in {1, 3}, l \in LineSizes}

GoodFiles ==
  {h \o body \o FileTail(k, Len(body)) :
     h \in GoodHeaders, body \in SeqsUpTo(BodyBytes, MaxBody), k \in TailKinds}

\* the header h with its window bytes (offsets 4..11) replaced
WithWindow(h, xmin, ymin, xmax, ymax) ==
  [i \in 1..HeaderSize |->
     LET off == i - 1
     IN CASE off = 4 -> xmin % 256
          [] off = 5 -> xmin \div 256
          [] off = 6 -> ymin % 256
          [] off = 7 -> ymin \div 256
          [] off = 8 -> xmax % 256
          [] off = 9 -> xmax \div 256
          [] off = 10 -> ymax % 256
          [] off = 11 -> ymax \div 256
          [] OTHER -> h[i]]

\* <<min, max>> of one axis: two bytes wide, empty, and inverted
WindowSpans == {<<258, 259>>, <<1, 0>>, <<258, 0>>}

\* accepted files whose window does not start at the origin
WindowFiles ==
  {WithWindow(MkHeader(PcxManufacturer, v, b, 0, 0, n, 2), x[1], y[1], x[2], y[2])
     \o body \o FileTail(k, Len(body)) :
     v \in {4, 5}, b \in {4, 8}, n \in {1, 3}, x \in WindowSpans, y \in WindowSpans,
     body \in {<<>>, <<7, 7>>}, k \in {"none", "marker_pal"}}

\* a 3x1 one-plane image whose body is one run of three bytes 0x7F
RunFiles ==
  {MkHeader(PcxManufacturer, v, 8, 2, 0, 1, 3) \o <<195, 127>> : v \in {4, 5}}

\* a 768-byte palette block whose entry 7 is (0, 36, 12), a colour whose
\* weighted sum is exactly 22.5, and whose entry 8 is (255, 0, 0)
TieBlock ==
  [i \in 1..PaletteBytes |->
     CASE i = 22 -> 0 [] i = 23 -> 36 [] i = 24 -> 12
       [] i = 25 -> 255 [] i = 26 -> 0 [] i = 27 -> 0
       [] OTHER -> (100 + i) % 256]

\* a 768-byte palette block whose entry i is (i, i, i)
GrayBlock == [i \in 1..PaletteBytes |-> (i - 1) \div 3]

\* 2x1 one-plane 8-bit images with pixel indices 7 and 8 and a marked palette
LumaFiles ==
  {MkHeader(PcxManufacturer, 5, 8, 1, 0, 1, 2) \o <<7, 8>> \o <<PaletteMarker>> \o block :
     block \in {TieBlock, GrayBlock}}

\* files whose manufacturer byte is not 10
ForeignFiles ==
  {MkHeader(m, 5, 8, 0, 0, 1, 1) \o body : m \in {0, 11}, body \in {<<>>, <<7>>}}

\* files shorter than a header
ShortFiles ==
  {SubSeq(MkHeader(PcxManufacturer, 5, 8, 0, 0, 1, 1), 1, n) : n \in {0, 1, 127}}

Files ==
  GoodFiles \cup WindowFiles \cup RunFiles \cup LumaFiles \cup ForeignFiles \cup ShortFiles

----------------------------------------------------------------------------
(* PCXReader.__init__, one step per statement; _decode_image one step per   *)
(* iteration of its plane loop.                                            *)

\* no renderer has been called
NoGrid == [width |-> -1, height |-> -1, pixels |-> <<>>]

RenderIdle ==
  /\ method = "none"
  /\ cell_size = 0
  /\ max_colors = 0
  /\ shown = <<>>
  /\ grid = NoGrid

\* no ImageHistory exists
HistoryIdle ==
  /\ stack = <<>>
  /\ index = -1
  /\ max_size = 0
  /\ op = "none"
  /\ arg = 0
  /\ returned = 0

\* no editor window exists
EditorIdle ==
  /\ app = "none"
  /\ original_image = 0
  /\ trail = "closed"
  /\ edits = 0
  /\ before_edit = 0
  /\ after_edit = 0

Init ==
  /\ RenderIdle
  /\ HistoryIdle
  /\ EditorIdle
  /\ data \in Files
  /\ pc = "start"
  /\ header = NoHeader
  /\ palette = None
  /\ dry_pos = 0
  /\ dry_pairs = 0
  /\ pos = 0
  /\ end_pos = 0
  /\ row = 0
  /\ plane = 0
  /\ plane_data = <<>>
  /\ scanlines = <<>>
  /\ line = <<>>
  /\ last_start = -1
  /\ image = NoImage
  /\ error = "none"

\* a length test that lets a 127-byte header through
InsufficientData_OffByOne(d) == Len(d) < HeaderSize - 1

\* PCXHeader.__init__ line 19: if len(data) < 128
InsufficientData(d) == Len(d) < HeaderSize

\* line 113, PCXHeader.__init__ lines 19-20: the header is too short
HeaderTooShort ==
  /\ pc = "start"
  /\ InsufficientData(Slice(data, 0, HeaderSize))
  /\ pc' = "failed"
  /\ error' = "InvalidHeader"
  /\ UNCHANGED <<render_vars, history_vars, editor_vars, data, dry_pos, dry_pairs, header, palette, pos, end_pos, row, plane, plane_data,
                 scanlines, line, last_start, image>>

\* lines 113-115: the header parses but is_valid() is false
NotAPcxFile ==
  /\ pc = "start"
  /\ ~InsufficientData(Slice(data, 0, HeaderSize))
  /\ ~is_valid(PCXHeader(Slice(data, 0, HeaderSize)))
  /\ header' = PCXHeader(Slice(data, 0, HeaderSize))
  /\ pc' = "failed"
  /\ error' = "NotAPCXFile"
  /\ UNCHANGED <<render_vars, history_vars, editor_vars, data, dry_pos, dry_pairs, palette, pos, end_pos, row, plane, plane_data,
                 scanlines, line, last_start, image>>

\* lines 113-115: the header parses and is valid
ParseHeader ==
  /\ pc = "start"
  /\ ~InsufficientData(Slice(data, 0, HeaderSize))
  /\ is_valid(PCXHeader(Slice(data, 0, HeaderSize)))
  /\ header' = PCXHeader(Slice(data, 0, HeaderSize))
  /\ pc' = "palette"
  /\ UNCHANGED <<render_vars, history_vars, editor_vars, data, dry_pos, dry_pairs, palette, pos, end_pos, row, plane, plane_data,
                 scanlines, line, last_start, image, error>>

\* the (scanline, plane) pairs the two for loops of _find_rle_end visit
DryRunTotal == Max(header.height, 0) * header.num_planes

\* lines 127-128, 180-185: _extract_palette calls _find_rle_end
BeginDryRun ==
  /\ pc = "palette"
  /\ header.version >= PaletteVersion
  /\ dry_pos' = HeaderSize
  /\ dry_pairs' = 0
  /\ pc' = "dryrun"
  /\ UNCHANGED <<render_vars, history_vars, editor_vars, data, header, palette, pos, end_pos, row, plane, plane_data,
                 scanlines, line, last_start, image, error>>

\* lines 187-201: the dry run of one (scanline, plane) pair
DryRunStep ==
  /\ pc = "dryrun"
  /\ dry_pairs < DryRunTotal
  /\ dry_pos' = DryRunPlane(data, dry_pos, header.bytes_per_line)
  /\ dry_pairs' = dry_pairs + 1
  /\ UNCHANGED <<render_vars, history_vars, editor_vars, data, pc, header, palette, pos, end_pos, row, plane, plane_data,
                 scanlines, line, last_start, image, error>>

\* line 118: _extract_palette returns (after the dry run when version >= 5)
ExtractPaletteStep ==
  /\ \/ pc = "palette" /\ header.version < PaletteVersion
     \/ pc = "dryrun" /\ dry_pairs >= DryRunTotal
  /\ palette' = ExtractPalette(data, header)
  /\ pc' = "image"
  /\ UNCHANGED <<render_vars, history_vars, editor_vars, data, dry_pos, dry_pairs, header, pos, end_pos, row, plane, plane_data,
                 scanlines, line, last_start, image, error>>

\* _decode_image lines 229-244
BeginDecode ==
  /\ pc = "image"
  /\ pos' = HeaderSize
  /\ end_pos' = IF Truthy(palette) /\ Len(data) >= PaletteBlock
                THEN Len(data) - PaletteBlock ELSE Len(data)
  /\ row' = 0
  /\ plane' = 0
  /\ plane_data' = <<>>
  /\ scanlines' = <<>>
  /\ pc' = "decode"
  /\ UNCHANGED <<render_vars, history_vars, editor_vars, data, dry_pos, dry_pairs, header, palette, line, last_start, image, error>>

\* lines 247-251: one plane of the current scanline is decoded
DecodePlane ==
  /\ pc = "decode"
  /\ row < header.height
  /\ plane < header.num_planes
  /\ pos < end_pos
  /\ LET r == DecodeRleScanline(data, pos, header.bytes_per_line)
     IN /\ line' = r[1]
        /\ pos' = r[2]
        /\ plane_data' = Append(plane_data, SliceTo(r[1], header.width))
  /\ last_start' = pos
  /\ plane' = plane + 1
  /\ UNCHANGED <<render_vars, history_vars, editor_vars, data, dry_pos, dry_pairs, pc, header, palette, end_pos, row, scanlines, image, error>>

\* lines 248-249, 252: the plane loop ends (exhausted or break), the scanline is kept
EndScanline ==
  /\ pc = "decode"
  /\ row < header.height
  /\ plane >= header.num_planes \/ pos >= end_pos
  /\ scanlines' = Append(scanlines, plane_data)
  /\ plane_data' = <<>>
  /\ plane' = 0
  /\ row' = row + 1
  /\ UNCHANGED <<render_vars, history_vars, editor_vars, data, dry_pos, dry_pairs, pc, header, palette, pos, end_pos, line, last_start,
                 image, error>>

Finish(img) ==
  /\ image' = img
  /\ pc' = "done"
  /\ UNCHANGED <<render_vars, history_vars, editor_vars, data, dry_pos, dry_pairs, header, palette, pos, end_pos, row, plane, plane_data,
                 scanlines, line, last_start, error>>

Raise(err) ==
  /\ error' = err
  /\ pc' = "failed"
  /\ UNCHANGED <<render_vars, history_vars, editor_vars, data, dry_pos, dry_pairs, header, palette, pos, end_pos, row, plane, plane_data,
                 scanlines, line, last_start, image>>

Decoded == pc = "decode" /\ row >= header.height

\* Image.new(mode, (width, height)) of lines 257, 284, 293 and 308: the
\* imaging library raises ValueError for a negative size
ImageNewRaises(width, height) == width < 0 \/ height < 0

\* lines 255-267
AssembleRgb ==
  /\ Decoded
  /\ header.num_planes = 3 /\ header.bits_per_pixel = 8
  /\ IF ImageNewRaises(header.width, header.height)
     THEN Raise("ValueError")
     ELSE IF \E i \in 1..Len(scanlines) : RgbRowRaises(scanlines[i], header.width)
     THEN Raise("IndexError")
     ELSE Finish(MkImage("rgb", header.width, header.height,
            PutData(ExtendAll([i \in 1..Len(scanlines) |->
                                 RgbRow(scanlines[i], header.width)], 1),
                    header.width, header.height, <<0, 0, 0>>)))

\* lines 270-291
AssembleLuma ==
  /\ Decoded
  /\ header.num_planes = 1 /\ header.bits_per_pixel = 8
  /\ Truthy(palette)
  /\ IF ImageNewRaises(header.width, header.height)
     THEN Raise("ValueError")
     ELSE IF \E i \in 1..Len(scanlines) : Len(scanlines[i]) = 0
     THEN Raise("IndexError")
     ELSE Finish(MkImage("luma", header.width, header.height,
            GrayToRgb(PutData(
              ExtendAll([i \in 1..Len(scanlines) |->
                           LumaRow(scanlines[i], header.width,
                                   GrayscaleMap(palette.entries))], 1),
              header.width, header.height, 0))))

\* lines 292-298
AssembleGray ==
  /\ Decoded
  /\ header.num_planes = 1 /\ header.bits_per_pixel = 8
  /\ ~Truthy(palette)
  /\ IF ImageNewRaises(header.width, header.height)
     THEN Raise("ValueError")
     ELSE IF \E i \in 1..Len(scanlines) : Len(scanlines[i]) = 0
     THEN Raise("IndexError")
     ELSE Finish(MkImage("gray", header.width, header.height,
            GrayToRgb(PutData(
              ExtendAll([i \in 1..Len(scanlines) |->
                           GrayRow(scanlines[i], header.width)], 1),
              header.width, header.height, 0))))

OtherFormat ==
  ~(header.num_planes = 3 /\ header.bits_per_pixel = 8)
  /\ ~(header.num_planes = 1 /\ header.bits_per_pixel = 8)

\* lines 300-305: the imaging library opens the file bytes itself; what it
\* returns is outside this program, only that it returned is recorded
AssembleCodec ==
  /\ Decoded
  /\ OtherFormat
  /\ Finish(MkImage("codec", header.width, header.height, <<>>))

\* lines 306-314: the library raised, grayscale assembly of the first planes
AssembleFallback ==
  /\ Decoded
  /\ OtherFormat
  /\ IF ImageNewRaises(header.width, header.height)
     THEN Raise("ValueError")
     ELSE Finish(MkImage("fallback", header.width, header.height,
            GrayToRgb(PutData(
              ExtendAll([i \in 1..Len(scanlines) |->
                           IF Len(scanlines[i]) > 0
                           THEN GrayRow(scanlines[i], header.width) ELSE <<>>], 1),
              header.width, header.height, 0))))

Next ==
  \/ HeaderTooShort
  \/ NotAPcxFile
  \/ ParseHeader
  \/ BeginDryRun
  \/ DryRunStep
  \/ ExtractPaletteStep
  \/ BeginDecode
  \/ DecodePlane
  \/ EndScanline
  \/ AssembleRgb
  \/ AssembleLuma
  \/ AssembleGray
  \/ AssembleCodec
  \/ AssembleFallback

Spec == Init /\ [][Next]_vars

----------------------------------------------------------------------------
(* Vocabulary of the properties.                                           *)

\* _extract_palette has just returned (line 118)
PaletteExtracted == pc = "image"

\* the reader has run _extract_palette on an accepted file
PaletteDone ==
  \/ pc \in {"image", "decode", "done"}
  \/ pc = "failed" /\ error \notin {"InvalidHeader", "NotAPCXFile"}

\* the constructor has returned or raised
Terminated == pc \in {"done", "failed"}

\* the dry-run end-of-image offset of the file being read
RleEnd == FindRleEnd(data, header)

\* the stepwise dry run ends where _find_rle_end returns
DryRunAgrees ==
  (pc = "image" /\ header.version >= PaletteVersion) => dry_pos = RleEnd

\* n RGB triples read from d starting at (0-based) offset start
TriplesAt(d, start, n) ==
  [i \in 1..n |-> <<d[start + 3 * i - 2], d[start + 3 * i - 1], d[start + 3 * i]>>]

\* a present palette with exactly these entries
IsPalette(p, entries) == ~p.none /\ p.entries = entries

\* the 16 triples of header bytes 16..63
HeaderTriples == TriplesAt(data, 16, 16)

----------------------------------------------------------------------------
(* C1..C10.                                                                *)

\* C1: for a file of at least 128 bytes with manufacturer byte 10 and
\* width, height >= 1 the constructor returns an image and raises nothing.
C1_ConstructorNeverRaises ==
  (/\ Terminated
   /\ Len(data) >= 128
   /\ data[1] = 10
   /\ PCXHeader(data).width >= 1
   /\ PCXHeader(data).height >= 1)
  => (pc = "done" /\ error = "none" /\ image.via # "none")

\* C2: every call of the RLE scanline decoder returns at most bytes_per_line
\* bytes, and exactly bytes_per_line unless the input ran out.
C2_ScanlineClipped ==
  last_start >= 0 =>
    /\ Len(line) <= header.bytes_per_line
    /\ pos < Len(data) => Len(line) = header.bytes_per_line

\* C3: version >= 5, the byte at the dry-run offset E is 12 and 768 bytes
\* follow it: the palette is the 256 triples of those 768 bytes.
C3_BoundaryMarkerWins ==
  LET E == RleEnd IN
  (/\ PaletteExtracted
   /\ header.version >= 5
   /\ E + 769 <= Len(data)
   /\ data[E + 1] = 12)
  => IsPalette(palette, TriplesAt(data, E + 1, 256))

\* C3 witness: such a file that also ends with a different marker-preceded
\* 768-byte block, and the boundary block is the palette.
C3_Witness ==
  LET E == RleEnd IN
  /\ PaletteExtracted
  /\ header.version >= 5
  /\ E + 769 < Len(data)
  /\ data[E + 1] = 12
  /\ data[Len(data) - 768] = 12
  /\ TriplesAt(data, Len(data) - 768, 256) # TriplesAt(data, E + 1, 256)
  /\ IsPalette(palette, TriplesAt(data, E + 1, 256))

\* C4: an 8-bit file with nothing after its compressed image data (file
\* length = E) has no palette, whatever its length.
C4_NothingAfterImageNoPalette ==
  LET E == RleEnd IN
  (/\ PaletteExtracted
   /\ header.bits_per_pixel = 8
   /\ Len(data) = E)
  => palette = None

\* C5: version >= 5, strategies 1-3 do not succeed and the file length is
\* >= 768 (768 included): the palette is the last 768 bytes.
C5_TrailingNoMarker ==
  LET E == RleEnd IN
  (/\ PaletteExtracted
   /\ header.version >= 5
   /\ ~(E + 769 <= Len(data) /\ data[E + 1] = 12)
   /\ ~(E + 768 <= Len(data))
   /\ ~(Len(data) > 768 /\ data[Len(data) - 768] = 12)
   /\ Len(data) >= 768)
  => IsPalette(palette, TriplesAt(data, Len(data) - 768, 256))

\* C6: version >= 5, the byte at E is not 12 (or there is no byte at E) and
\* E + 768 <= file length (equality included): the palette is the 256
\* triples of bytes E .. E+767.
C6_BoundaryNoMarker ==
  LET E == RleEnd IN
  (/\ PaletteExtracted
   /\ header.version >= 5
   /\ ~(E < Len(data) /\ data[E + 1] = 12)
   /\ E + 768 <= Len(data))
  => IsPalette(palette, TriplesAt(data, E, 256))

\* C6 witness: the unmarked block ends exactly at the end of the file.
C6_Witness ==
  LET E == RleEnd IN
  /\ PaletteExtracted
  /\ header.version >= 5
  /\ E + 768 = Len(data)
  /\ data[E + 1] # 12
  /\ IsPalette(palette, TriplesAt(data, E, 256))

\* C7: version >= 5, no boundary strategy succeeds, file length > 768 and the
\* byte at length-769 is 12: the palette is the last 768 bytes.
C7_TrailingMarker ==
  LET E == RleEnd IN
  (/\ PaletteExtracted
   /\ header.version >= 5
   /\ ~(E + 769 <= Len(data))
   /\ Len(data) > 768
   /\ data[Len(data) - 768] = 12)
  => IsPalette(palette, TriplesAt(data, Len(data) - 768, 256))

\* C7 witness: the marker lies in the file body, before the offset E.
C7_Witness ==
  LET E == RleEnd IN
  /\ PaletteExtracted
  /\ header.version >= 5
  /\ E + 769 > Len(data)
  /\ Len(data) - 769 >= 128
  /\ data[Len(data) - 768] = 12
  /\ IsPalette(palette, TriplesAt(data, Len(data) - 768, 256))

\* C8: version < 5: the palette is the 16-entry header palette when
\* bits_per_pixel <= 4 and absent otherwise, whatever follows the image.
C8_VersionGate ==
  (PaletteExtracted /\ header.version < 5)
  => IF header.bits_per_pixel <= 4
     THEN IsPalette(palette, HeaderTriples)
     ELSE palette = None

\* C8 witness: a version-4 8-bit file with a marked palette at E, read
\* without a palette.
C8_Witness ==
  LET E == RleEnd IN
  /\ PaletteExtracted
  /\ header.version < 5
  /\ header.bits_per_pixel = 8
  /\ E + 769 <= Len(data)
  /\ data[E + 1] = 12
  /\ palette = None

\* C9: the header palette is returned iff bits_per_pixel <= 4 and no
\* 256-colour strategy produced a palette; when one did, the palette has
\* 256 entries even if bits_per_pixel <= 4.
C9_HeaderPaletteLast ==
  LET E == RleEnd
      Found256 == header.version >= 5 /\ (E + 769 <= Len(data) \/ Len(data) > 768)
  IN
  PaletteExtracted =>
    /\ IsPalette(palette, HeaderTriples) <=> (header.bits_per_pixel <= 4 /\ ~Found256)
    /\ Found256 => (~palette.none /\ Len(palette.entries) = 256)

\* C9 witness: a 4-bit file whose palette is a 256-entry one.
C9_Witness ==
  LET E == RleEnd
      Found256 == header.version >= 5 /\ (E + 769 <= Len(data) \/ Len(data) > 768)
  IN
  /\ PaletteExtracted
  /\ header.bits_per_pixel <= 4
  /\ Found256
  /\ ~palette.none
  /\ Len(palette.entries) = 256

IsTriple(t) == Len(t) = 3 /\ \A k \in 1..3 : t[k] \in 0..255

\* C10: after palette extraction the palette is absent, or the 16 triples of
\* header bytes 16..63, or exactly 256 triples.
C10_PaletteShape ==
  PaletteDone =>
    \/ palette = None
    \/ IsPalette(palette, HeaderTriples) /\ Len(palette.entries) = 16
    \/ /\ ~palette.none
       /\ Len(palette.entries) = 256
       /\ \A i \in 1..256 : IsTriple(palette.entries[i])

\* C10 witness: the three shapes differ; here the 16-entry one.
C10_Witness ==
  /\ PaletteDone
  /\ ~palette.none
  /\ Len(palette.entries) = 16
  /\ palette.entries = HeaderTriples


\* ---------------------------------------------------------------------------
\* Header validation
\* ---------------------------------------------------------------------------

\* C11: reading a file of fewer than 128 bytes fails with the invalid-header
\* error and leaves no header fields, no palette and no image; the error is
\* raised for no other file.
C11_ShortHeaderFails ==
  /\ (pc # "start" /\ Len(data) < HeaderSize) =>
       /\ pc = "failed"
       /\ error = "InvalidHeader"
       /\ header = NoHeader
       /\ palette = None
       /\ image = NoImage
  /\ error = "InvalidHeader" => Len(data) < HeaderSize

C11_Witness ==
  pc = "failed" /\ error = "InvalidHeader" /\ Len(data) = HeaderSize - 1

\* C12: a file with a full header is rejected as not a PCX file exactly when
\* its manufacturer byte (offset 0) is not 10; a rejected file never starts
\* the dry run, palette extraction or decoding and has no palette and no image.
C12_ManufacturerGate ==
  (pc # "start" /\ Len(data) >= HeaderSize) =>
    /\ error = "NotAPCXFile" <=> At(data, 0) # 10
    /\ At(data, 0) # 10 =>
         /\ pc = "failed"
         /\ palette = None
         /\ image = NoImage
         /\ dry_pos = 0
         /\ last_start = -1

C12_Witness ==
  pc = "failed" /\ error = "NotAPCXFile" /\ At(data, 0) = 11


\* C13: every parsed header has xmin, ymin, xmax, ymax equal to the
\* little-endian 16-bit values at offsets 4, 6, 8 and 10 of the file, and
\* width = xmax - xmin + 1, height = ymax - ymin + 1.
C13_WindowExtent ==
  header # NoHeader =>
    LET xmin == data[5] + 256 * data[6]
        ymin == data[7] + 256 * data[8]
        xmax == data[9] + 256 * data[10]
        ymax == data[11] + 256 * data[12]
    IN /\ header.xmin = xmin /\ header.ymin = ymin
       /\ header.xmax = xmax /\ header.ymax = ymax
       /\ header.width = xmax - xmin + 1
       /\ header.height = ymax - ymin + 1

C13_Witness ==
  /\ header # NoHeader
  /\ header.xmin = 258 /\ header.xmax = 259 /\ header.width = 2
  /\ header.ymin = 258 /\ header.ymax = 0 /\ header.height = -257

\* C14: once the reader has started palette extraction (and in every later
\* step through pixel assembly) the header has width >= 1 and height >= 1.
C14_ExtentAtLeastOne ==
  pc \in {"dryrun", "image", "decode", "done"} =>
    header.width >= 1 /\ header.height >= 1


\* ---------------------------------------------------------------------------
\* Run-length decoding
\* ---------------------------------------------------------------------------

\* the latest _decode_rle_scanline call started at last_start, returned line
\* and left the cursor at pos
Called == last_start >= 0

\* the top two bits of b are not both set
IsLiteral(b) == (b \div 64) # 3

\* C15: when the bytes_per_line bytes at the start of a decoder call are all
\* literals, the call returns exactly those bytes and advances the cursor by
\* bytes_per_line.
C15_LiteralScanline ==
  LET n == header.bytes_per_line
  IN (/\ Called
      /\ last_start + n <= Len(data)
      /\ \A i \in 1..n : IsLiteral(data[last_start + i])) =>
       /\ line = SubSeq(data, last_start + 1, last_start + n)
       /\ Len(line) = n
       /\ pos = last_start + n

C15_Witness ==
  /\ Called
  /\ header.bytes_per_line = 2
  /\ last_start + 2 <= Len(data)
  /\ IsLiteral(data[last_start + 1]) /\ IsLiteral(data[last_start + 2])
  /\ line = <<7, 7>>
  /\ pos = last_start + 2

\* one unit of the stream at cursor s[2]: a run header followed by a value
\* byte contributes (b & 0x3F) copies of the value and two bytes of cursor,
\* any other byte contributes itself and one byte of cursor (a run header
\* that is the last byte of the file has no value byte and contributes
\* nothing); s = <<output, cursor>>
Unit(d, s) ==
  LET b == d[s[2] + 1]
  IN IF ~IsLiteral(b) /\ s[2] + 1 < Len(d)
     THEN <<s[1] \o [i \in 1..(b % 64) |-> d[s[2] + 2]], s[2] + 2>>
     ELSE IF ~IsLiteral(b) THEN <<s[1], s[2] + 1>>
     ELSE <<Append(s[1], b), s[2] + 1>>

\* the units from cursor s[2] up to cursor to, at most n of them
RECURSIVE Units(_, _, _, _)
Units(d, s, to, n) ==
  IF s[2] >= to THEN s
  ELSE IF n <= 1 THEN Unit(d, s)
  ELSE Units(d, Units(d, s, to, n \div 2), to, n - (n \div 2))

\* C16: the buffer a decoder call returns is the unit-by-unit expansion of
\* the bytes it consumed: (b & 0x3F) copies of v and a cursor advance of 2 for
\* a run header b followed by v, the byte itself and an advance of 1
\* otherwise; the body [0xC3, 0x7F] with bytes_per_line 3 decodes to
\* [127, 127, 127].
C16_RunExpansion ==
  Called =>
    /\ <<line, pos>> = Units(data, <<<<>>, last_start>>, pos, pos - last_start)
    /\ (/\ last_start = HeaderSize
        /\ Len(data) = HeaderSize + 2
        /\ data[HeaderSize + 1] = 195 /\ data[HeaderSize + 2] = 127
        /\ header.bytes_per_line = 3) =>
         line = <<127, 127, 127>> /\ pos = HeaderSize + 2

C16_Witness ==
  /\ Called
  /\ last_start = HeaderSize
  /\ data[HeaderSize + 1] = 195 /\ data[HeaderSize + 2] = 127
  /\ header.bytes_per_line = 3
  /\ line = <<127, 127, 127>>
  /\ pos = HeaderSize + 2

\* C17: the dry-run cursor and the decode cursor start at 128, never
\* decrease and never exceed the file length; every decoder call starts
\* inside the file, and a call that returns fewer than bytes_per_line bytes
\* has stopped at the end of the file (it returns, it does not fail).
C17_CursorBounded ==
  /\ [](/\ pc = "dryrun" => HeaderSize <= dry_pos /\ dry_pos <= Len(data)
        /\ (pc = "dryrun" /\ dry_pairs = 0) => dry_pos = HeaderSize
        /\ pc \in {"decode", "done"} => HeaderSize <= pos /\ pos <= Len(data)
        /\ (pc = "decode" /\ ~Called) => pos = HeaderSize
        /\ Called =>
             /\ HeaderSize <= last_start /\ last_start < Len(data)
             /\ last_start <= pos /\ pos <= Len(data)
             /\ Len(line) < header.bytes_per_line => pos = Len(data))
  /\ [][/\ (pc = "dryrun" /\ pc' = "dryrun") => dry_pos' >= dry_pos
        /\ (pc = "decode" /\ pc' = "decode") => pos' >= pos]_vars

C17_Witness ==
  /\ Called
  /\ header.version >= PaletteVersion
  /\ Len(line) < header.bytes_per_line
  /\ Len(line) > 0
  /\ pos = Len(data)
  /\ dry_pos = Len(data)

\* C18: one dry-run step and one decoder call started at the same cursor
\* with the same bytes_per_line end at the same cursor, also when the last
\* byte of the file is a run header without a value byte.
C18_DryRunStepEquivalence ==
  /\ [](Called => pos = DryRunPlane(data, last_start, header.bytes_per_line))
  /\ [][(pc = "dryrun" /\ dry_pairs' = dry_pairs + 1) =>
          dry_pos' = DecodeRleScanline(data, dry_pos, header.bytes_per_line)[2]]_vars

C18_Witness ==
  /\ Called
  /\ last_start = Len(data) - 1
  /\ ~IsLiteral(data[Len(data)])
  /\ line = <<>>
  /\ pos = Len(data)
  /\ pos = DryRunPlane(data, last_start, header.bytes_per_line)


\* C19: for every accepted file of version >= 5, when _decode_image has
\* visited its last (scanline, plane) pair the decode cursor equals the
\* offset the dry run of _find_rle_end ended at (dry_pos, see DryRunAgrees).
C19_DecodeEndsAtRleEnd ==
  (header.version >= PaletteVersion /\ (Decoded \/ pc = "done")) => pos = dry_pos

\* ---------------------------------------------------------------------------
\* Pixel assembly
\* ---------------------------------------------------------------------------

\* every row of the image has all of its planes, each at least width long
\* before trimming (scanlines holds the buffers trimmed to width)
AllPlanesSupplied ==
  /\ Len(scanlines) = header.height
  /\ \A y \in 1..Len(scanlines) :
       /\ Len(scanlines[y]) = header.num_planes
       /\ \A k \in 1..header.num_planes : Len(scanlines[y][k]) = header.width

\* C20: a 3-plane 8-bit image whose rows all have their three planes and
\* whose bytes_per_line >= width has pixel (x, y) equal to
\* (plane0[x], plane1[x], plane2[x]) of row y, for every x < width, y < height.
C20_DirectRgb ==
  (/\ pc = "done"
   /\ header.num_planes = 3 /\ header.bits_per_pixel = 8
   /\ header.bytes_per_line >= header.width
   /\ AllPlanesSupplied) =>
    /\ image.width = header.width /\ image.height = header.height
    /\ Len(image.pixels) = header.width * header.height
    /\ \A y \in 0..(header.height - 1) : \A x \in 0..(header.width - 1) :
         image.pixels[y * header.width + x + 1] =
           <<At(scanlines[y + 1][1], x), At(scanlines[y + 1][2], x),
             At(scanlines[y + 1][3], x)>>

C20_Witness ==
  /\ pc = "done"
  /\ header.num_planes = 3 /\ header.bits_per_pixel = 8
  /\ header.width = 2 /\ header.height = 2
  /\ header.bytes_per_line >= header.width
  /\ AllPlanesSupplied
  /\ image.pixels[4] =
       <<scanlines[2][1][2], scanlines[2][2][2], scanlines[2][3][2]>>
  /\ scanlines[2][1][2] # scanlines[2][3][2]


\* the weighted sum 0.299r + 0.587g + 0.114b rounded to the nearest integer,
\* halves up, and clamped to 0..255
RoundedLuma(r, g, b) ==
  LET y == (299 * r + 587 * g + 114 * b + 500) \div 1000
  IN IF y < 0 THEN 0 ELSE IF y > 255 THEN 255 ELSE y

\* the pixel indices of the decoded rows, in the order they are assembled
DecodedIndices ==
  ExtendAll([y \in 1..Len(scanlines) |-> SliceTo(scanlines[y][1], header.width)], 1)

\* C21: in an image assembled on the palette path of a 1-plane 8-bit file,
\* every pixel index i is output as (L, L, L) with L the half-up rounded,
\* clamped luma of palette entry i; entry (255, 0, 0) gives (76, 76, 76).
C21_LumaMapping ==
  (pc = "done" /\ image.via = "luma") =>
    \A k \in 1..Min(Len(DecodedIndices), Len(image.pixels)) :
      LET i == DecodedIndices[k]
      IN i < Len(palette.entries) =>
           LET e == palette.entries[i + 1]
               L == RoundedLuma(e[1], e[2], e[3])
           IN image.pixels[k] = <<L, L, L>>


\* C22: in an image assembled on the palette-absent path of a 1-plane 8-bit
\* file, for every row y < height and every x < width at which the trimmed
\* buffer of row y holds a byte v, pixel (x, y) is (v, v, v).
C22_DirectGray ==
  (pc = "done" /\ image.via = "gray") =>
    \A y \in 0..(header.height - 1) : \A x \in 0..(header.width - 1) :
      (y < Len(scanlines) /\ x < Len(scanlines[y + 1][1])) =>
        LET v == At(scanlines[y + 1][1], x)
        IN image.pixels[y * header.width + x + 1] = <<v, v, v>>


\* the first planes of the scanlines that have one, in assembly order
FirstPlanes ==
  ExtendAll([y \in 1..Len(scanlines) |->
               IF Len(scanlines[y]) > 0
               THEN SliceTo(scanlines[y][1], header.width) ELSE <<>>], 1)

\* C23: a file whose (num_planes, bits_per_pixel) is neither (3, 8) nor
\* (1, 8) never ends in an error once its header is accepted; when the codec
\* fails the image holds the first decoded plane of each scanline that has
\* one, scanlines without a plane being skipped.
C23_FallbackNeverRaises ==
  (/\ Terminated
   /\ error \notin {"InvalidHeader", "NotAPCXFile"}
   /\ OtherFormat) =>
    /\ pc = "done"
    /\ image.via = "fallback" =>
         \A k \in 1..Min(Len(FirstPlanes), Len(image.pixels)) :
           image.pixels[k] = <<FirstPlanes[k], FirstPlanes[k], FirstPlanes[k]>>


\* the offset of the first byte of the 769- or 768-byte block the
\* 256-colour palette of a version >= 5 file was parsed from (its marker
\* byte when it has one), following the strategies of _extract_palette;
\* dry_pos is the offset _find_rle_end returned
PaletteBlockStart ==
  IF dry_pos + PaletteBlock <= Len(data)
  THEN dry_pos
  ELSE IF At(data, Len(data) - PaletteBlock) = PaletteMarker
       THEN Len(data) - PaletteBlock
       ELSE Len(data) - PaletteBytes

\* C26: when a 256-colour palette was extracted from the file body, every
\* call of the real decode ends at or before the first byte of the block the
\* palette was parsed from (marker byte included), so it reads none of it.
C26_DecodeStopsBeforePalette ==
  (/\ Called
   /\ header.version >= PaletteVersion
   /\ Len(palette.entries) = PaletteEntries) =>
    pos <= PaletteBlockStart


\* the palette maps every index i to the gray (i, i, i)
IsGrayRamp(p) ==
  /\ Len(p.entries) = PaletteEntries
  /\ \A i \in 1..PaletteEntries : p.entries[i] = <<i - 1, i - 1, i - 1>>

\* the pixels the palette-absent path of lines 293-298 assembles from the
\* decoded scanlines
GrayPathPixels ==
  GrayToRgb(PutData(
    ExtendAll([y \in 1..Len(scanlines) |-> GrayRow(scanlines[y], header.width)], 1),
    header.width, header.height, 0))

\* C30: for every palette entry (r, g, b) the palette path maps, the rounded
\* sum lies in 0..255 before the clamp, a gray entry (v, v, v) maps to v, and
\* an image whose palette entry i is (i, i, i) has the pixels the
\* palette-absent path assembles from the same scanlines.
C30_LumaClampIdle ==
  (pc = "done" /\ image.via = "luma") =>
    /\ \A i \in 1..Len(palette.entries) :
         LET e == palette.entries[i]
         IN /\ LumaSum(e[1], e[2], e[3]) \in 0..255
            /\ Luma(e[1], e[2], e[3]) = LumaSum(e[1], e[2], e[3])
            /\ (e[1] = e[2] /\ e[2] = e[3]) => Luma(e[1], e[2], e[3]) = e[1]
    /\ IsGrayRamp(palette) => image.pixels = GrayPathPixels

C30_Witness ==
  /\ pc = "done"
  /\ image.via = "luma"
  /\ IsGrayRamp(palette)
  /\ Luma(255, 255, 255) = 255
  /\ image.pixels = <<<<7, 7, 7>>, <<8, 8, 8>>>>


----------------------------------------------------------------------------
(* The palette renderers of PCXReader (lines 316-451), called on a reader  *)
(* whose constructor has returned.                                         *)

\* largest cell_size passed to a renderer
MaxCell == 2

\* most pixels of the images whose colours are counted
MaxPixels == 4

\* colors_per_row of lines 340, 397 and 430
ColorsPerRow == 16

\* the default max_colors of line 363
DefaultMaxColors == 256

\* Python's order on (r, g, b) tuples
LexLess(a, b) ==
  \/ a[1] < b[1]
  \/ a[1] = b[1] /\ a[2] < b[2]
  \/ a[1] = b[1] /\ a[2] = b[2] /\ a[3] < b[3]

\* a row count that drops a last row that is not full
SwatchRows_Floor(num_colors) == num_colors \div ColorsPerRow

\* lines 342, 401, 432: num_rows
SwatchRows(num_colors) == (num_colors + ColorsPerRow - 1) \div ColorsPerRow

\* lines 353-357: the colour of cell color_idx
CellColor(colors, color_idx) ==
  IF color_idx < Len(colors) THEN colors[color_idx + 1] ELSE <<0, 0, 0>>

\* lines 350-358: the pixel list built by the three nested loops
SwatchPixels(colors, cell) ==
  ExtendAll(
    [r \in 1..SwatchRows(Len(colors)) |->
       ExtendAll(
         [k \in 1..cell |->
            ExtendAll(
              [col \in 1..ColorsPerRow |->
                 Repeat(CellColor(colors, (r - 1) * ColorsPerRow + (col - 1)), cell)],
              1)],
         1)],
    1)

\* lines 340-361 (and 397-419, 430-451): the grid image
SwatchGrid(colors, cell) ==
  LET img_width == ColorsPerRow * cell
      img_height == SwatchRows(Len(colors)) * cell
  IN [width |-> img_width, height |-> img_height,
      pixels |-> PutData(SwatchPixels(colors, cell), img_width, img_height,
                         <<0, 0, 0>>)]

\* lines 329-338: the palette as the grays the luma path displays
LumaColors(entries) ==
  [i \in 1..Len(entries) |->
     LET y == Luma(entries[i][1], entries[i][2], entries[i][3])
     IN <<y, y, y>>]

\* lines 387-391: the items (rgb, count) of color_to_count
Histogram(pixels) ==
  {<<c, Cardinality({i \in 1..Len(pixels) : pixels[i] = c})>> :
     c \in {pixels[i] : i \in 1..Len(pixels)}}

\* a sort key that breaks ties by colour value descending
KeyLess_TieDescending(a, b) ==
  a[2] > b[2] \/ (a[2] = b[2] /\ LexLess(b[1], a[1]))

\* line 394: the sort key (-count, rgb) of an item (rgb, count)
KeyLess(a, b) ==
  a[2] > b[2] \/ (a[2] = b[2] /\ LexLess(a[1], b[1]))

\* line 394: colors.sort(key=...); the keys of distinct items differ
RECURSIVE SortByKey(_)
SortByKey(S) ==
  IF S = {} THEN <<>>
  ELSE LET least == CHOOSE x \in S : \A y \in S \ {x} : KeyLess(x, y)
       IN <<least>> \o SortByKey(S \ {least})

\* line 395: ordered_colors
OrderedColors(pixels, max) ==
  LET colors == Slice(SortByKey(Histogram(pixels)), 0, max)
  IN [i \in 1..Len(colors) |-> colors[i][1]]

\* the colours of the images whose histogram is taken
PreviewColors == {<<0, 0, 0>>, <<0, 0, 1>>, <<1, 0, 0>>}

\* decoded images: up to MaxPixels pixels in one row, and one image with
\* more distinct colours than a grid row has cells
RenderImages ==
  {MkImage("rgb", Len(px), 1, px) : px \in SeqsUpTo(PreviewColors, MaxPixels)}
    \cup {MkImage("rgb", ColorsPerRow + 1, 1,
                  [i \in 1..(ColorsPerRow + 1) |-> <<i, 0, 0>>])}

\* the header of a reader with the given depth and plane count
RenderHeader(bits_per_pixel, num_planes) ==
  PCXHeader(MkHeader(PcxManufacturer, 5, bits_per_pixel, 1, 0, num_planes, 2))

\* the palettes _extract_palette can have left for that header
RenderPalettes(h) ==
  {None, Some(ParsePalette(TieBlock)), Some(ParsePalette(GrayBlock))}
    \cup (IF h.bits_per_pixel <= 4 THEN {Some(h.header_palette)} ELSE {})

\* a reader after its constructor returned
RenderInit ==
  /\ HistoryIdle
  /\ EditorIdle
  /\ RenderIdle
  /\ data = <<>>
  /\ pc = "done"
  /\ error = "none"
  /\ \/ /\ \E b \in {4, 8}, n \in {1, 3} : header = RenderHeader(b, n)
        /\ palette \in RenderPalettes(header)
        /\ image = MkImage("rgb", 1, 1, <<<<0, 0, 0>>>>)
     \/ /\ header = RenderHeader(8, 1)
        /\ palette = None
        /\ image \in RenderImages
  /\ dry_pos = 0
  /\ dry_pairs = 0
  /\ pos = 0
  /\ end_pos = 0
  /\ row = 0
  /\ plane = 0
  /\ plane_data = <<>>
  /\ scanlines = <<>>
  /\ line = <<>>
  /\ last_start = -1

\* a renderer returns: the colours it drew and the grid, NoGrid for None
Rendered(name, cell, max, colors, img) ==
  /\ method' = name
  /\ cell_size' = cell
  /\ max_colors' = max
  /\ shown' = colors
  /\ grid' = img
  /\ pc' = "rendered"
  /\ UNCHANGED <<history_vars, editor_vars, data, header, palette, dry_pos, dry_pairs,
                 pos, end_pos, row, plane, plane_data, scanlines, line, last_start,
                 image, error>>

\* get_palette_image, lines 316-361
GetPaletteImage ==
  /\ pc = "done"
  /\ \E cell \in 1..MaxCell :
       IF ~Truthy(palette)
       THEN Rendered("get_palette_image", cell, 0, <<>>, NoGrid)
       ELSE LET palette_colors ==
                  IF header.bits_per_pixel = 8 /\ header.num_planes = 1
                  THEN LumaColors(palette.entries) ELSE palette.entries
            IN Rendered("get_palette_image", cell, 0, palette_colors,
                        SwatchGrid(palette_colors, cell))

\* get_palette_image_raw, lines 421-451
GetPaletteImageRaw ==
  /\ pc = "done"
  /\ \E cell \in 1..MaxCell :
       IF ~Truthy(palette)
       THEN Rendered("get_palette_image_raw", cell, 0, <<>>, NoGrid)
       ELSE Rendered("get_palette_image_raw", cell, 0, palette.entries,
                     SwatchGrid(palette.entries, cell))

\* get_palette_preview_from_image, lines 363-419; the decoded image is
\* always in mode RGB, so the counting of line 390 applies
GetPalettePreviewFromImage ==
  /\ pc = "done"
  /\ \E cell \in 1..MaxCell, max \in {0, 1, 2, DefaultMaxColors} :
       LET ordered_colors == OrderedColors(image.pixels, max)
       IN IF Len(ordered_colors) = 0
          THEN Rendered("get_palette_preview_from_image", cell, max, <<>>, NoGrid)
          ELSE Rendered("get_palette_preview_from_image", cell, max, ordered_colors,
                        SwatchGrid(ordered_colors, cell))

RenderNext ==
  \/ GetPaletteImage
  \/ GetPaletteImageRaw
  \/ GetPalettePreviewFromImage

RenderSpec == RenderInit /\ [][RenderNext]_vars

\* ---------------------------------------------------------------------------
\* Palette rendering
\* ---------------------------------------------------------------------------

\* the colours a grid is expected to show: the file palette for
\* get_palette_image_raw and get_palette_image (its luma grays when the
\* image is 1-plane 8-bit), the ordered histogram colours for the preview
ExpectedEntries ==
  IF method = "get_palette_preview_from_image" THEN shown
  ELSE IF ~Truthy(palette) THEN <<>>
  ELSE IF /\ method = "get_palette_image"
          /\ header.bits_per_pixel = 8 /\ header.num_planes = 1
       THEN [i \in 1..Len(palette.entries) |->
               LET e == palette.entries[i]
                   L == Luma(e[1], e[2], e[3])
               IN <<L, L, L>>]
       ELSE palette.entries

\* C24: a grid rendered from n entries with cell size c is 16*c pixels wide
\* and ceil(n/16)*c pixels high, and its pixel (x, y) has the colour of entry
\* (y div c)*16 + (x div c) when that index is < n and is black otherwise;
\* no grid is returned when there are no entries.
C24_SwatchGridLayout ==
  pc = "rendered" =>
    LET n == Len(ExpectedEntries)
        c == cell_size
        rows == IF n % 16 = 0 THEN n \div 16 ELSE n \div 16 + 1
    IN /\ grid = NoGrid <=> n = 0
       /\ grid # NoGrid =>
            /\ grid.width = 16 * c
            /\ grid.height = rows * c
            /\ Len(grid.pixels) = grid.width * grid.height
            /\ \A y \in 0..(grid.height - 1) : \A x \in 0..(grid.width - 1) :
                 LET i == (y \div c) * 16 + (x \div c)
                 IN grid.pixels[y * grid.width + x + 1] =
                      IF i < n THEN ExpectedEntries[i + 1] ELSE <<0, 0, 0>>

C24_Witness ==
  /\ pc = "rendered"
  /\ method = "get_palette_image"
  /\ cell_size = 2
  /\ Len(palette.entries) = 256
  /\ header.bits_per_pixel = 8 /\ header.num_planes = 3
  /\ grid.width = 32 /\ grid.height = 32
  /\ grid.pixels[2 * 32 + 3] = palette.entries[18]
  /\ palette.entries[18] # palette.entries[2]


\* the distinct colours of the decoded image and their occurrence counts
ImageColors == {image.pixels[i] : i \in 1..Len(image.pixels)}

Occurrences(c) == Cardinality({i \in 1..Len(image.pixels) : image.pixels[i] = c})

\* colour a comes before colour b: more frequent, or as frequent and smaller
Precedes(a, b) ==
  \/ Occurrences(a) > Occurrences(b)
  \/ Occurrences(a) = Occurrences(b) /\ LexLess(a, b)

\* C25: the colours the from-image preview renders are distinct colours of
\* the decoded image, in order of occurrence count descending with ties by
\* colour value ascending, and they are the first max_colors colours of that
\* order: every colour left out comes after every colour rendered.
C25_HistogramOrder ==
  (pc = "rendered" /\ method = "get_palette_preview_from_image") =>
    /\ Len(shown) = Min(max_colors, Cardinality(ImageColors))
    /\ \A i \in 1..Len(shown) : shown[i] \in ImageColors
    /\ \A i \in 1..Len(shown) : \A j \in 1..Len(shown) :
         i < j => Precedes(shown[i], shown[j])
    /\ \A c \in ImageColors :
         (\A i \in 1..Len(shown) : shown[i] # c) =>
           \A i \in 1..Len(shown) : Precedes(shown[i], c)

C25_Witness ==
  /\ pc = "rendered"
  /\ method = "get_palette_preview_from_image"
  /\ max_colors = 2
  /\ Cardinality(ImageColors) = 3
  /\ Occurrences(<<0, 0, 1>>) = 2
  /\ Occurrences(<<0, 0, 0>>) = 1
  /\ Occurrences(<<1, 0, 0>>) = 1
  /\ shown = <<<<0, 0, 1>>, <<0, 0, 0>>>>


----------------------------------------------------------------------------
(* ImageHistory of src/src/utils.py (lines 7-46); the class of the same    *)
(* name in src/legacy/CMSC162-Project_salcedo_suyman.py is a copy of it.   *)

\* largest max_size an ImageHistory is built with
MaxHistory == 3

\* Python's None as a pushed or returned image
NoneImage == 0

\* the images pushed; an image and its copy are the same value
HistoryImages == {1, 2}

\* Python's st[i], a negative i counting from the end
PyAt(st, i) == IF i < 0 THEN st[Len(st) + i + 1] ELSE st[i + 1]

\* push without the cut of lines 16-17
Push_KeepsFuture(st, idx, max, pil_image) ==
  LET appended == Append(st, pil_image)
      evict == Len(appended) > max
      st2 == IF evict THEN SubSeq(appended, 2, Len(appended)) ELSE appended
      idx2 == IF evict THEN idx ELSE idx + 1
  IN <<st2, Max(0, Min(idx2, Len(st2) - 1))>>

\* push, lines 14-24: <<stack, index>> afterwards
Push(st, idx, max, pil_image) ==
  LET kept == IF idx < Len(st) - 1 THEN SubSeq(st, 1, idx + 1) ELSE st
      appended == Append(kept, pil_image)
      evict == Len(appended) > max
      st2 == IF evict THEN SubSeq(appended, 2, Len(appended)) ELSE appended
      idx2 == IF evict THEN idx ELSE idx + 1
  IN <<st2, Max(0, Min(idx2, Len(st2) - 1))>>

\* an undo test that also passes at the oldest entry
can_undo_AtZero(idx) == idx >= 0

\* can_undo, lines 26-27
can_undo(idx) == idx > 0

\* can_redo, lines 29-30
can_redo(st, idx) == idx < Len(st) - 1

\* undo, lines 32-36: <<index, returned image>>
Undo(st, idx) ==
  IF can_undo(idx) THEN <<idx - 1, PyAt(st, idx - 1)>> ELSE <<idx, NoneImage>>

\* redo, lines 38-42: <<index, returned image>>
Redo(st, idx) ==
  IF can_redo(st, idx) THEN <<idx + 1, PyAt(st, idx + 1)>> ELSE <<idx, NoneImage>>

\* no reader exists
ReaderIdle ==
  /\ data = <<>>
  /\ pc = "none"
  /\ header = NoHeader
  /\ palette = None
  /\ dry_pos = 0
  /\ dry_pairs = 0
  /\ pos = 0
  /\ end_pos = 0
  /\ row = 0
  /\ plane = 0
  /\ plane_data = <<>>
  /\ scanlines = <<>>
  /\ line = <<>>
  /\ last_start = -1
  /\ image = NoImage
  /\ error = "none"

\* __init__, lines 9-12
HistoryInit ==
  /\ ReaderIdle
  /\ RenderIdle
  /\ EditorIdle
  /\ stack = <<>>
  /\ index = -1
  /\ max_size \in 1..MaxHistory
  /\ op = "init"
  /\ arg = NoneImage
  /\ returned = NoneImage

HistoryPush ==
  /\ \E pil_image \in HistoryImages \cup {NoneImage} :
       /\ stack' = Push(stack, index, max_size, pil_image)[1]
       /\ index' = Push(stack, index, max_size, pil_image)[2]
       /\ arg' = pil_image
  /\ op' = "push"
  /\ returned' = NoneImage
  /\ UNCHANGED <<reader_vars, render_vars, editor_vars, max_size>>

HistoryUndo ==
  /\ index' = Undo(stack, index)[1]
  /\ returned' = Undo(stack, index)[2]
  /\ op' = "undo"
  /\ arg' = NoneImage
  /\ UNCHANGED <<reader_vars, render_vars, editor_vars, max_size, stack>>

HistoryRedo ==
  /\ index' = Redo(stack, index)[1]
  /\ returned' = Redo(stack, index)[2]
  /\ op' = "redo"
  /\ arg' = NoneImage
  /\ UNCHANGED <<reader_vars, render_vars, editor_vars, max_size, stack>>

\* reset, lines 44-46
HistoryReset ==
  /\ stack' = <<>>
  /\ index' = -1
  /\ op' = "reset"
  /\ arg' = NoneImage
  /\ returned' = NoneImage
  /\ UNCHANGED <<reader_vars, render_vars, editor_vars, max_size>>

HistoryNext ==
  \/ HistoryPush
  \/ HistoryUndo
  \/ HistoryRedo
  \/ HistoryReset

HistorySpec == HistoryInit /\ [][HistoryNext]_vars

\* ---------------------------------------------------------------------------
\* Undo history
\* ---------------------------------------------------------------------------

\* C28: with max_size >= 1 the stack never holds more than max_size
\* entries, -1 <= index <= len(stack) - 1, and index = -1 exactly when the
\* stack is empty; undo and redo leave the stack as it is, move index by one
\* and return the entry there when can_undo / can_redo holds, and return
\* None with index unchanged otherwise.
C28_HistoryInvariant ==
  /\ [](/\ Len(stack) <= max_size
        /\ -1 <= index /\ index <= Len(stack) - 1
        /\ index = -1 <=> stack = <<>>)
  /\ [][/\ op' = "undo" =>
             /\ stack' = stack
             /\ IF index > 0
                THEN index' = index - 1 /\ returned' = stack[index]
                ELSE index' = index /\ returned' = NoneImage
        /\ op' = "redo" =>
             /\ stack' = stack
             /\ IF index < Len(stack) - 1
                THEN index' = index + 1 /\ returned' = stack[index + 2]
                ELSE index' = index /\ returned' = NoneImage]_vars

C28_Witness ==
  /\ op = "undo"
  /\ Len(stack) = 3
  /\ index = 1
  /\ returned = stack[2]
  /\ returned # NoneImage

\* C29: right after a push (max_size >= 1) the pushed entry is the last and
\* the current one, so can_redo() is false; the entries above the previous
\* index are gone; and when the kept entries already filled the stack the
\* oldest is evicted, the others keeping their order.
C29_PushDropsFuture ==
  [][op' = "push" =>
       LET kept == SubSeq(stack, 1, index + 1)
           full == Append(kept, arg')
       IN /\ index' = Len(stack') - 1
          /\ stack'[Len(stack')] = arg'
          /\ ~(index' < Len(stack') - 1)
          /\ stack' = IF Len(kept) >= max_size
                      THEN SubSeq(full, 2, Len(full)) ELSE full]_vars

C29_Witness ==
  /\ op = "push"
  /\ max_size = 2
  /\ stack = <<1, 2>>
  /\ arg = 2
  /\ index = 1


----------------------------------------------------------------------------
(* The editor window ImageViewerApp: open, apply_and_push, undo and redo   *)
(* of src/LAB1-Salcedo-and-Suyman.py ("lab1", which keeps its history in a *)
(* list of its own) and of src/legacy/CMSC162-Project_salcedo_suyman.py    *)
(* ("legacy", which keeps it in an ImageHistory).  stack and index hold    *)
(* the history list and its index for either window.                       *)

\* most edits applied in one run
MaxEdits == 3

\* self.max_history of lab1 (line 67)
Lab1MaxHistory == 30

\* ImageHistory(max_size=40) of legacy (line 165)
LegacyMaxHistory == 40

\* the image a file opens as
OpenedImage == 1

\* the edit functions: each returns an image that differs from its argument
EditFunctions == {1, 2}

ApplyEdit(func, img) == img + func

\* push_history of lab1, lines 280-303: <<history, history_index>> afterwards
push_history(history, history_index, state_image, max_history) ==
  LET kept == IF history_index < Len(history) - 1
              THEN SubSeq(history, 1, history_index + 1) ELSE history
      appended == Append(kept, state_image)
      evict == Len(appended) > max_history
      h2 == IF evict THEN SubSeq(appended, 2, Len(appended)) ELSE appended
      i2 == IF evict THEN history_index ELSE history_index + 1
  IN <<h2, IF i2 >= Len(h2) THEN Len(h2) - 1 ELSE i2>>

\* the history after the window pushed state_image
EditorPush(state_image) ==
  IF app = "lab1"
  THEN push_history(stack, index, state_image, max_size)
  ELSE Push(stack, index, max_size, state_image)

\* lab1 lines 63-67, legacy lines 160-165: a window with no image
EditorInit ==
  /\ ReaderIdle
  /\ RenderIdle
  /\ app \in {"lab1", "legacy"}
  /\ max_size = IF app = "lab1" THEN Lab1MaxHistory ELSE LegacyMaxHistory
  /\ stack = <<>>
  /\ index = -1
  /\ op = "none"
  /\ arg = 0
  /\ returned = 0
  /\ original_image = NoneImage
  /\ trail = "closed"
  /\ edits = 0
  /\ before_edit = NoneImage
  /\ after_edit = NoneImage

\* open_image with a file that loads: lab1 lines 668-676 (history emptied,
\* the image pushed, history_index set to 0), legacy lines 462-464
\* (history.reset(), history.push)
OpenImage ==
  /\ original_image' = OpenedImage
  /\ stack' = IF app = "lab1"
              THEN push_history(<<>>, -1, OpenedImage, max_size)[1]
              ELSE Push(<<>>, -1, max_size, OpenedImage)[1]
  /\ index' = IF app = "lab1" THEN 0 ELSE Push(<<>>, -1, max_size, OpenedImage)[2]
  /\ trail' = "opened"
  /\ edits' = 0
  /\ before_edit' = NoneImage
  /\ after_edit' = NoneImage
  /\ UNCHANGED <<reader_vars, render_vars, app, max_size, op, arg, returned>>

\* apply_and_push with an edit that returns: lab1 lines 748-755, legacy
\* lines 499-504; the image shown before the edit is pushed, then replaced
ApplyAndPush ==
  /\ original_image # NoneImage
  /\ edits < MaxEdits
  /\ \E func \in EditFunctions :
       /\ original_image' = ApplyEdit(func, original_image)
       /\ after_edit' = ApplyEdit(func, original_image)
  /\ stack' = EditorPush(original_image)[1]
  /\ index' = EditorPush(original_image)[2]
  /\ before_edit' = original_image
  /\ trail' = IF trail \in {"opened", "edited"} THEN "edited" ELSE "other"
  /\ edits' = edits + 1
  /\ UNCHANGED <<reader_vars, render_vars, app, max_size, op, arg, returned>>

\* apply_and_push with an edit that raises: lab1 lines 751, 756-757, legacy
\* lines 502, 505-506; the push has happened, the image stays
ApplyAndPushRaises ==
  /\ original_image # NoneImage
  /\ edits < MaxEdits
  /\ stack' = EditorPush(original_image)[1]
  /\ index' = EditorPush(original_image)[2]
  /\ trail' = "other"
  /\ edits' = edits + 1
  /\ UNCHANGED <<reader_vars, render_vars, app, max_size, op, arg, returned,
                 original_image, before_edit, after_edit>>

\* undo: lab1 lines 866-868 with restore_from_history (lines 310-321),
\* legacy lines 615-618
EditorUndo ==
  /\ can_undo(index)
  /\ index' = index - 1
  /\ original_image' = PyAt(stack, index - 1)
  /\ trail' = IF trail = "edited" THEN "undone" ELSE "other"
  /\ UNCHANGED <<reader_vars, render_vars, app, max_size, op, arg, returned,
                 stack, edits, before_edit, after_edit>>

\* redo: lab1 lines 875-877 with restore_from_history, legacy lines 621-624
EditorRedo ==
  /\ can_redo(stack, index)
  /\ index' = index + 1
  /\ original_image' = PyAt(stack, index + 1)
  /\ trail' = IF trail = "undone" THEN "redone" ELSE "other"
  /\ UNCHANGED <<reader_vars, render_vars, app, max_size, op, arg, returned,
                 stack, edits, before_edit, after_edit>>

EditorNext ==
  \/ OpenImage
  \/ ApplyAndPush
  \/ ApplyAndPushRaises
  \/ EditorUndo
  \/ EditorRedo

EditorSpec == EditorInit /\ [][EditorNext]_vars

\* C27: after an image was opened and one or more edits were applied (and
\* nothing else), one undo shows the image that was shown right before the
\* latest edit, and a redo right after it shows the image that edit produced.
C27_UndoRedoLatestEdit ==
  /\ trail = "undone" => original_image = before_edit
  /\ trail = "redone" => original_image = after_edit

====
